---- MODULE Spec2Model ----
(***************************************************************************)
(* Model of app.py: the /generate_diagram proxy handler.  Text is modelled *)
(* as a sequence of one-character strings, so that str.strip() and the     *)
(* fence-extraction regular expression are computed character by           *)
(* character, with the regex engine's search order and backtracking.       *)
(***************************************************************************)
EXTENDS Integers, Sequences, FiniteSets, TLC

VARIABLES GEMINI_API_KEY, client, pc, request, calls, raw, ntok, outcome, resp

vars == <<GEMINI_API_KEY, client, pc, request, calls, raw, ntok, outcome, resp>>

(* ---------------------------------------------------------------- bounds *)

\* Longest upstream response text, in tokens, when exploring the handler.
MaxRespTokens == 2

\* Longest upstream response text, in tokens, when exploring the extraction.
MaxTokens == 5

(* ------------------------------------------------------------ characters *)

\* The backtick character (written out: the character itself cannot appear here).
Tick == "BACKTICK"

\* The literal of the pattern: three backticks, written FENCE below.
Fence == <<Tick, Tick, Tick>>

\* The alternatives of (?:html|javascript|js), in the order the pattern lists them.
Tags == << <<"h", "t", "m", "l">>,
           <<"j", "a", "v", "a", "s", "c", "r", "i", "p", "t">>,
           <<"j", "s">> >>

\* The character class \s, which is also what str.strip() removes.
IsSpace(c) == c \in {" ", "\n"}

\* The pieces an upstream response text is put together from.
Tokens == { Fence, <<Tick>>, <<"\n">>, Tags[1], Tags[2], Tags[3],
            <<"c", "s", "s">>, <<"<">> }

(* ------------------------------------------------------------ str.strip *)

RECURSIVE lstrip(_)
lstrip(s) == IF s # <<>> /\ IsSpace(Head(s)) THEN lstrip(Tail(s)) ELSE s

RECURSIVE rstrip(_)
rstrip(s) == IF s # <<>> /\ IsSpace(s[Len(s)])
             THEN rstrip(SubSeq(s, 1, Len(s) - 1))
             ELSE s

strip(s) == rstrip(lstrip(s))

(* ------------------------------------------------------------- re.search *)

\* Whether the literal lit stands in s at position i.
LitAt(s, i, lit) == /\ i >= 1
                    /\ i + Len(lit) - 1 <= Len(s)
                    /\ SubSeq(s, i, i + Len(lit) - 1) = lit

\* The length of the run of \s characters of s that starts at position i.
RECURSIVE WsRun(_, _)
WsRun(s, i) == IF i <= Len(s) /\ IsSpace(s[i]) THEN 1 + WsRun(s, i + 1) ELSE 0

NoMatch == [ok |-> FALSE, g |-> <<>>]

\* The trailing \s*FENCE tried at position e: \s* is greedy, so it first takes
\* m characters (the whole run) and gives them back one at a time.
RECURSIVE TrailAt(_, _, _)
TrailAt(s, e, m) == IF LitAt(s, e + m, Fence) THEN TRUE
                    ELSE IF m = 0 THEN FALSE
                    ELSE TrailAt(s, e, m - 1)

\* A greedy group ([\s\S]*) in the place of the lazy one: the longest
\* extension after which the trailing \s*FENCE still matches.
RECURSIVE GreedyFrom(_, _, _)
GreedyFrom(s, g, e) == IF e < g THEN NoMatch
                       ELSE IF TrailAt(s, e, WsRun(s, e))
                            THEN [ok |-> TRUE, g |-> SubSeq(s, g, e - 1)]
                            ELSE GreedyFrom(s, g, e - 1)

GreedyGroup(s, g, e) == GreedyFrom(s, g, Len(s) + 1)

\* The lazy group ([\s\S]*?) starting at g: it is extended one character at
\* a time, from e = g on, until the trailing \s*FENCE matches.
RECURSIVE LazyGroup(_, _, _)
LazyGroup(s, g, e) == IF e > Len(s) + 1 THEN NoMatch
                      ELSE IF TrailAt(s, e, WsRun(s, e))
                           THEN [ok |-> TRUE, g |-> SubSeq(s, g, e - 1)]
                           ELSE LazyGroup(s, g, e + 1)

\* The leading greedy \s* at position j: k characters first, then fewer.
RECURSIVE LeadWs(_, _, _)
LeadWs(s, j, k) == LET r == LazyGroup(s, j + k, j + k)
                   IN IF r.ok THEN r
                      ELSE IF k = 0 THEN NoMatch
                      ELSE LeadWs(s, j, k - 1)

\* The optional group (?:html|javascript|js)? at position j: the alternatives
\* in order, and last the empty match.
RECURSIVE TagAlt(_, _, _)
TagAlt(s, j, n) ==
    IF n > Len(Tags) THEN LeadWs(s, j, WsRun(s, j))
    ELSE LET r == IF LitAt(s, j, Tags[n])
                  THEN LeadWs(s, j + Len(Tags[n]), WsRun(s, j + Len(Tags[n])))
                  ELSE NoMatch
         IN IF r.ok THEN r ELSE TagAlt(s, j, n + 1)

\* One attempt of the whole pattern anchored at position i.
MatchAt(s, i) == IF LitAt(s, i, Fence) THEN TagAlt(s, i + Len(Fence), 1) ELSE NoMatch

\* A search that keeps the rightmost position at which the pattern matches.
RECURSIVE SearchLast(_, _)
SearchLast(s, i) == IF i < 1 THEN NoMatch
                    ELSE LET r == MatchAt(s, i)
                         IN IF r.ok THEN r ELSE SearchLast(s, i - 1)

SearchFromEnd(s, i) == SearchLast(s, Len(s))

\* re.search: the leftmost position at which the pattern matches.
RECURSIVE SearchFrom(_, _)
SearchFrom(s, i) == IF i > Len(s) THEN NoMatch
                    ELSE LET r == MatchAt(s, i)
                         IN IF r.ok THEN r ELSE SearchFrom(s, i + 1)

re_search(s) == SearchFrom(s, 1)

\* The extraction without the first strip of response.text.
html_content_unstripped(text) == LET match == re_search(text)
                                 IN IF match.ok THEN strip(match.g) ELSE text

\* Lines 74-84: from response.text to html_content.
html_content(text) == LET raw_text == strip(text)
                          match == re_search(raw_text)
                      IN IF match.ok THEN strip(match.g) ELSE raw_text

(* ---------------------------------------------------------- request body *)

\* A JSON value, as far as the handler looks at it: its type and its size
\* (a string's length, a number's value, a boolean as 0/1, a container's
\* number of members).
JNull == [type |-> "null", n |-> 0]

JValue(t, k) == [type |-> t, n |-> k]

ConceptValues == { JNull,
                   JValue("string", 0), JValue("string", 3),
                   JValue("number", 0), JValue("number", 5),
                   JValue("bool", 0), JValue("bool", 1),
                   JValue("list", 0), JValue("list", 1),
                   JValue("object", 0), JValue("object", 1) }

\* The bodies a POST may carry: not JSON at all; JSON whose top level is
\* not an object; an object without "concept"; an object with "concept".
Bodies ==
    { [json |-> FALSE, top |-> "none", hasConcept |-> FALSE, concept |-> JNull] }
    \cup { [json |-> TRUE, top |-> t, hasConcept |-> FALSE, concept |-> JNull] :
              t \in {"null", "string", "number", "bool", "list", "object"} }
    \cup { [json |-> TRUE, top |-> "object", hasConcept |-> TRUE, concept |-> v] :
              v \in ConceptValues }

NoBody == [json |-> FALSE, top |-> "unset", hasConcept |-> FALSE, concept |-> JNull]

\* Python's truth value of a JSON value, as "if not concept" tests it.
Truthy(v) == CASE v.type = "null" -> FALSE
               [] OTHER -> v.n # 0

\* The validation without its "if not concept" test.
Validate_unchecked(body) == IF ~body.json \/ body.top # "object" THEN "format" ELSE "ok"

\* Lines 46-52: the outcome of parsing and validating the body.
\*   request.get_json() raises on a body that is not JSON; data.get raises
\*   AttributeError when data is not a dict; both reach "except Exception".
Validate(body) ==
    IF ~body.json \/ body.top # "object" THEN "format"
    ELSE LET concept == IF body.hasConcept THEN body.concept ELSE JNull
         IN IF ~Truthy(concept) THEN "missing" ELSE "ok"

\* Lines 55-62: the prompt is the fixed template around the concept.
prompt(body) == [template |-> "chemistry-visualisation", concept |-> body.concept]

\* Lines 68-71: the arguments of client.models.generate_content.
GenerateContentCall(body) == [model |-> "gemini-2.5-flash", contents |-> prompt(body)]

(* -------------------------------------------------------------- responses *)

NoResp == [status |-> 0, ctype |-> "none", body |-> <<>>, error |-> <<>>]

\* jsonify({"error": ...}), status
JsonError(status, error) ==
    [status |-> status, ctype |-> "application/json", body |-> <<>>, error |-> error]

\* html_content, 200, {'Content-Type': 'text/plain'}
PlainText(body) == [status |-> 200, ctype |-> "text/plain", body |-> body, error |-> <<>>]

ErrNoClient == <<"client not initialised, check the API key">>
ErrMissing == <<"the request body lacks the 'concept' parameter">>
ErrFormat == <<"malformed request data, JSON expected">>
APIErrorPrefix == "API call failed (APIError): "
ExceptionPrefix == "internal server error (Exception): "

\* The messages an upstream failure may carry.
ErrMsgs == {"quota exceeded", "connection reset"}

\* str(e) of the AttributeError that response.text.strip() raises on None.
NoneTextMsg == "'NoneType' object has no attribute 'strip'"

NoOutcome == [kind |-> "none", msg |-> ""]

(* ----------------------------------------------------------------- state *)

\* Lines 25-33: the key is read once; the client exists only if it is truthy.
Init == /\ GEMINI_API_KEY \in {"unset", "", "key"}
        /\ client = (GEMINI_API_KEY \notin {"unset", ""})
        /\ pc = "idle"
        /\ request = NoBody
        /\ calls = <<>>
        /\ raw = <<>>
        /\ ntok = 0
        /\ outcome = NoOutcome
        /\ resp = NoResp

\* The handler without its "if not client" test.
ClientAssumed == FALSE

\* Line 42: "if not client".
ClientMissing == ~client

\* Lines 39-71: a POST arrives and the handler runs up to its response or
\* up to the dispatch of the external call.
generate_diagram(body) ==
    /\ pc = "idle"
    /\ request' = body
    /\ IF ClientMissing
       THEN /\ resp' = JsonError(500, ErrNoClient)
            /\ pc' = "responded"
            /\ calls' = calls
       ELSE CASE Validate(body) = "missing" ->
                   /\ resp' = JsonError(400, ErrMissing)
                   /\ pc' = "responded"
                   /\ calls' = calls
              [] Validate(body) = "format" ->
                   /\ resp' = JsonError(400, ErrFormat)
                   /\ pc' = "responded"
                   /\ calls' = calls
              [] OTHER ->
                   /\ calls' = Append(calls, GenerateContentCall(body))
                   /\ pc' = "calling"
                   /\ resp' = resp
    /\ UNCHANGED <<GEMINI_API_KEY, client, raw, ntok, outcome>>

\* The external service produces its response text, piece by piece.
UpstreamEmit(tok, max) ==
    /\ pc = "calling"
    /\ ntok < max
    /\ raw' = raw \o tok
    /\ ntok' = ntok + 1
    /\ UNCHANGED <<GEMINI_API_KEY, client, pc, request, calls, outcome, resp>>

\* Lines 74-87: generate_content returns a response with text.
ReturnText ==
    /\ pc = "calling"
    /\ outcome' = [kind |-> "text", msg |-> ""]
    /\ resp' = PlainText(html_content(raw))
    /\ pc' = "responded"
    /\ UNCHANGED <<GEMINI_API_KEY, client, request, calls, raw, ntok>>

\* Lines 74, 93-96: the response carries no text (response.text is None),
\* so .strip() raises AttributeError.
ReturnNoText ==
    /\ pc = "calling"
    /\ ntok = 0
    /\ outcome' = [kind |-> "notext", msg |-> NoneTextMsg]
    /\ resp' = JsonError(500, <<ExceptionPrefix, NoneTextMsg>>)
    /\ pc' = "responded"
    /\ UNCHANGED <<GEMINI_API_KEY, client, request, calls, raw, ntok>>

\* An APIError handler that answers with an empty page instead of the error.
RaiseAPIError_swallowed(msg) ==
    /\ pc = "calling"
    /\ ntok = 0
    /\ outcome' = [kind |-> "apierror", msg |-> msg]
    /\ resp' = PlainText(<<>>)
    /\ pc' = "responded"
    /\ UNCHANGED <<GEMINI_API_KEY, client, request, calls, raw, ntok>>

\* Lines 89-92: generate_content raises APIError.
RaiseAPIError(msg) ==
    /\ pc = "calling"
    /\ ntok = 0
    /\ outcome' = [kind |-> "apierror", msg |-> msg]
    /\ resp' = JsonError(500, <<APIErrorPrefix, msg>>)
    /\ pc' = "responded"
    /\ UNCHANGED <<GEMINI_API_KEY, client, request, calls, raw, ntok>>

\* An exception handler that dispatches the call again instead of answering.
RaiseException_retry(msg) ==
    /\ pc = "calling"
    /\ ntok = 0
    /\ calls' = Append(calls, GenerateContentCall(request))
    /\ UNCHANGED <<GEMINI_API_KEY, client, pc, request, raw, ntok, outcome, resp>>

\* Lines 93-96: generate_content raises any other exception.
RaiseException(msg) ==
    /\ pc = "calling"
    /\ ntok = 0
    /\ outcome' = [kind |-> "exception", msg |-> msg]
    /\ resp' = JsonError(500, <<ExceptionPrefix, msg>>)
    /\ pc' = "responded"
    /\ UNCHANGED <<GEMINI_API_KEY, client, request, calls, raw, ntok>>

\* The response is sent; the next request finds nothing of this one.
NextRequest ==
    /\ pc = "responded"
    /\ pc' = "idle"
    /\ request' = NoBody
    /\ calls' = <<>>
    /\ raw' = <<>>
    /\ ntok' = 0
    /\ outcome' = NoOutcome
    /\ resp' = NoResp
    /\ UNCHANGED <<GEMINI_API_KEY, client>>

Next == \/ \E body \in Bodies : generate_diagram(body)
        \/ \E tok \in Tokens : UpstreamEmit(tok, MaxRespTokens)
        \/ ReturnText
        \/ ReturnNoText
        \/ \E msg \in ErrMsgs : RaiseAPIError(msg)
        \/ \E msg \in ErrMsgs : RaiseException(msg)
        \/ NextRequest

Spec == Init /\ [][Next]_vars

\* The extraction explored on its own: a valid request has been dispatched
\* (client constructed, concept a non-empty string) and the external
\* service answers with a text of up to MaxTokens pieces.
ValidBody == [json |-> TRUE, top |-> "object", hasConcept |-> TRUE,
              concept |-> JValue("string", 3)]

InitExtract == /\ GEMINI_API_KEY = "key"
               /\ client = TRUE
               /\ pc = "calling"
               /\ request = ValidBody
               /\ calls = <<GenerateContentCall(ValidBody)>>
               /\ raw = <<>>
               /\ ntok = 0
               /\ outcome = NoOutcome
               /\ resp = NoResp

NextExtract == \/ \E tok \in Tokens : UpstreamEmit(tok, MaxTokens)
               \/ ReturnText

SpecExtract == InitExtract /\ [][NextExtract]_vars

(* ------------------------------------------- the handler's error mapping *)

Responded == pc = "responded"

\* The body is not JSON, or it is JSON without a "concept" field.
LacksConcept(body) == ~body.json \/ body.top # "object" \/ ~body.hasConcept

\* The body is a JSON object whose "concept" is a non-empty string.
StringConcept(body) == /\ body.json
                       /\ body.top = "object"
                       /\ body.hasConcept
                       /\ body.concept.type = "string"
                       /\ body.concept.n > 0

\* The body is a JSON object whose "concept" Python takes as true.
PassesValidation(body) == /\ body.json
                          /\ body.top = "object"
                          /\ body.hasConcept
                          /\ body.concept.type # "null"
                          /\ body.concept.n # 0

\* C1 as stated: a request whose body is not JSON or lacks "concept" is
\* answered 400 in every configuration, a missing client included.
C1_Always400 == Responded /\ LacksConcept(request) => resp.status = 400

\* C1 as amended: such a request is answered 400 when the client handle was
\* constructed, and 500 with the fixed configuration error when it was not
\* (the client test comes before the body is looked at).
C1_400WhenClient ==
    Responded /\ LacksConcept(request) =>
        /\ resp.ctype = "application/json"
        /\ calls = <<>>
        /\ IF client THEN resp.status = 400 /\ resp.error \in {ErrMissing, ErrFormat}
                     ELSE resp = JsonError(500, ErrNoClient)

C1_Witness == /\ Responded
              /\ client
              /\ ~request.json
              /\ resp.status = 400

\* C2: with no client handle every request with a valid concept is answered
\* 500 with the one fixed error message, and generate_content is not called.
C2_NoClientFixed500 ==
    /\ ~client => calls = <<>> /\ pc # "calling"
    /\ Responded /\ ~client /\ StringConcept(request) =>
           resp = JsonError(500, ErrNoClient)

C2_Witness == /\ Responded
              /\ ~client
              /\ StringConcept(request)
              /\ resp.status = 500

\* C6: an APIError is answered 500 with a JSON error that holds the upstream
\* message; any other exception of the call or of the extraction is answered
\* 500 with a JSON error that holds its message; none is answered 200.
C6_FailuresAre500 ==
    Responded /\ outcome.kind \in {"apierror", "exception", "notext"} =>
        /\ resp.status = 500
        /\ resp.ctype = "application/json"
        /\ resp.body = <<>>
        /\ Len(resp.error) = 2
        /\ resp.error[2] = outcome.msg
        /\ resp.error[1] = IF outcome.kind = "apierror" THEN APIErrorPrefix
                                                         ELSE ExceptionPrefix

C6_Witness == /\ Responded
              /\ outcome.kind = "apierror"
              /\ outcome.msg = "quota exceeded"
              /\ resp.status = 500

\* C7 as stated: generate_content is called only for a request whose concept
\* is a non-empty string; with the client constructed, any other request is
\* answered 400 and no call is made.
C7_OnlyStringConcepts ==
    /\ calls # <<>> => StringConcept(request)
    /\ Responded /\ client /\ ~StringConcept(request) =>
           resp.status = 400 /\ calls = <<>>

\* C8: one request dispatches generate_content at most once: once when the
\* client exists and validation passed, never otherwise, and a failed call
\* is not dispatched again.
C8_AtMostOneCall ==
    /\ Len(calls) <= 1
    /\ pc = "calling" => Len(calls) = 1
    /\ Responded =>
           Len(calls) = IF client /\ PassesValidation(request) THEN 1 ELSE 0
    /\ Responded /\ outcome.kind # "none" => Len(calls) = 1

C8_Witness == /\ Responded
              /\ outcome.kind = "exception"
              /\ Len(calls) = 1
              /\ resp.status = 500

(* ------------------------------------------------- the extracted fragment *)

\* Markdown's reading of a text, against which the extraction is stated:
\* the fences are the runs of three backticks found left to right without
\* overlap; they pair up into blocks (first with second, third with fourth);
\* a block's tag is the run of letters that follows its opening fence, and
\* its content is what lies between the tag and the closing fence.
IsLetter(c) == c \notin {Tick, "<"} /\ ~IsSpace(c)

IsFenceAt(t, i) == /\ i >= 1
                   /\ i + 2 <= Len(t)
                   /\ t[i] = Tick /\ t[i + 1] = Tick /\ t[i + 2] = Tick

RECURSIVE FenceScan(_, _)
FenceScan(t, i) == IF i + 2 > Len(t) THEN <<>>
                   ELSE IF IsFenceAt(t, i) THEN <<i>> \o FenceScan(t, i + 3)
                   ELSE FenceScan(t, i + 1)

Fences(t) == FenceScan(t, 1)

RECURSIVE TagLen(_, _)
TagLen(t, j) == IF j <= Len(t) /\ IsLetter(t[j])
                THEN 1 + TagLen(t, j + 1)
                ELSE 0

BlockTag(t, open) == SubSeq(t, open + 3, open + 2 + TagLen(t, open + 3))

BlockContent(t, open, close) == SubSeq(t, open + 3 + TagLen(t, open + 3), close - 1)

\* Untagged, or tagged html, javascript or js.
RecognisedTag(tag) == tag = <<>> \/ \E n \in 1..Len(Tags) : tag = Tags[n]

\* The blocks of t (by number) that are untagged or carry a recognised tag.
RecognisedBlocks(t) ==
    { k \in 1..(Len(Fences(t)) \div 2) : RecognisedTag(BlockTag(t, Fences(t)[2 * k - 1])) }

\* Whether t begins with tag.
BeginsWith(t, tag) == Len(t) >= Len(tag) /\ SubSeq(t, 1, Len(tag)) = tag

\* A text with a recognised tag at its start removed.
TagLess(t) == IF BeginsWith(t, Tags[1]) THEN SubSeq(t, Len(Tags[1]) + 1, Len(t))
              ELSE IF BeginsWith(t, Tags[2]) THEN SubSeq(t, Len(Tags[2]) + 1, Len(t))
              ELSE IF BeginsWith(t, Tags[3]) THEN SubSeq(t, Len(Tags[3]) + 1, Len(t))
              ELSE t

\* What lies between the first fence and the second.
FirstRegion(t) == SubSeq(t, Fences(t)[1] + 3, Fences(t)[2] - 1)

\* The characters of a text that are not whitespace, in order.
RECURSIVE NonWs(_)
NonWs(t) == IF t = <<>> THEN <<>>
            ELSE IF IsSpace(Head(t)) THEN NonWs(Tail(t))
            ELSE <<Head(t)>> \o NonWs(Tail(t))

\* Whether piece occurs in t as one contiguous run.
OccursIn(piece, t) ==
    \E a \in 1..(Len(t) + 1) : /\ a + Len(piece) - 1 <= Len(t)
                               /\ SubSeq(t, a, a + Len(piece) - 1) = piece

TextReturned == pc = "responded" /\ outcome.kind = "text"

Trimmed == strip(raw)

\* C3 as stated: when the trimmed text contains a fenced block that is
\* untagged or tagged html, javascript or js, the answer is 200, text/plain,
\* and its body is the trimmed content of the first such block.
C3_RecognisedBlockContent ==
    TextReturned /\ RecognisedBlocks(Trimmed) # {} =>
        LET k == CHOOSE k \in RecognisedBlocks(Trimmed) :
                     \A j \in RecognisedBlocks(Trimmed) : k <= j
            open == Fences(Trimmed)[2 * k - 1]
            close == Fences(Trimmed)[2 * k]
        IN resp = PlainText(strip(BlockContent(Trimmed, open, close)))

\* The same where the recognised block is the first block of the text:
\* this much of C3 the code does.
FirstBlockRecognisedContent ==
    TextReturned /\ 1 \in RecognisedBlocks(Trimmed) =>
        resp = PlainText(strip(BlockContent(Trimmed, Fences(Trimmed)[1], Fences(Trimmed)[2])))

C5_OtherTagFallsThrough ==
    ( /\ TextReturned
      /\ Len(Fences(Trimmed)) = 2
      /\ Fences(Trimmed)[1] = 1
      /\ Fences(Trimmed)[2] = Len(Trimmed) - 2
      /\ ~RecognisedTag(BlockTag(Trimmed, 1))
      /\ IsSpace(Trimmed[4 + TagLen(Trimmed, 4)]) )
    => resp = PlainText(Trimmed)

\* C9 as stated: without a fenced block the body is the trimmed text, and
\* with one the body keeps every non-whitespace character of the text but
\* the markers of one fence and its language tag: prose before and after
\* the block stays.
C9_NothingDropped ==
    TextReturned =>
        IF Len(Fences(Trimmed)) < 2
        THEN resp = PlainText(Trimmed)
        ELSE /\ resp.status = 200
             /\ NonWs(resp.body) =
                    NonWs(SubSeq(Trimmed, 1, Fences(Trimmed)[1] - 1)
                          \o TagLess(FirstRegion(Trimmed))
                          \o SubSeq(Trimmed, Fences(Trimmed)[2] + 3, Len(Trimmed)))

\* C9 as amended: without a fenced block the body is the trimmed text; with
\* one, the body is a contiguous piece of the text that keeps every
\* non-whitespace character lying between the first opening fence (after its
\* html/javascript/js tag) and the first closing fence, and nothing else:
\* what stands before the opening fence or after the closing one is dropped.
C9_OnlyFirstBlockKept ==
    TextReturned =>
        /\ resp.status = 200
        /\ resp.ctype = "text/plain"
        /\ IF Len(Fences(Trimmed)) < 2
           THEN resp.body = Trimmed
           ELSE /\ NonWs(resp.body) = NonWs(TagLess(FirstRegion(Trimmed)))
                /\ OccursIn(resp.body, FirstRegion(Trimmed))

C9_Witness ==
    /\ TextReturned
    /\ Len(Fences(Trimmed)) >= 2
    /\ Fences(Trimmed)[1] > 1
    /\ Fences(Trimmed)[2] + 2 < Len(Trimmed)
    /\ resp.body = <<"<">>

\* C10: extraction is idempotent: extracting from a returned body gives the
\* body back; and when the pattern matched, the body holds no fence and has
\* no whitespace at either end.
C10_Idempotent ==
    TextReturned =>
        /\ html_content(resp.body) = resp.body
        /\ Len(Fences(Trimmed)) >= 2 =>
               /\ \A i \in 1..Len(resp.body) : ~IsFenceAt(resp.body, i)
               /\ resp.body = <<>> \/ (~IsSpace(Head(resp.body))
                                       /\ ~IsSpace(resp.body[Len(resp.body)]))

C10_Witness ==
    /\ TextReturned
    /\ Len(Fences(Trimmed)) >= 2
    /\ resp.body # <<>>
    /\ resp.body # Trimmed
    /\ Trimmed # raw

====
